---- MODULE Spec2Model ----
(***************************************************************************)
(* Statistical clear sky fitting: the alternating minimisation of          *)
(* IterativeFitting (statistical_clear_sky/algorithm/iterative_fitting.py) *)
(* and of its monolithic predecessor IterativeClearSky (clearsky/main.py). *)
(*                                                                         *)
(* Numbers.  Matrix entries are integers.  Weights and tau are kept in     *)
(* tenths (0.6 is 6, tau = 0.8 is 8), objective components in hundredths,  *)
(* the exit epsilon in thousandths and the degradation rate beta in        *)
(* quarters (-0.25 is -1).  A Frobenius norm is the integer square root of *)
(* the scaled sum of squares.  A float division keeps IEEE semantics: x/0  *)
(* is +-inf and 0/0 is nan, and every comparison with nan is false.        *)
(*                                                                         *)
(* The convex solver is an external collaborator: a solve returns a status *)
(* and, drawn from a finite pool of candidate matrices, any value that     *)
(* satisfies the constraints the code handed to it.                        *)
(***************************************************************************)
EXTENDS Integers, Sequences, FiniteSets, TLC

\* ------------------------------------------------------------------ bounds
NumRows == 2
RankK == 2
\* the largest max_iteration execute is called with
MaxIterCap == 2
\* the number of execute calls on one object
MaxCalls == 2
\* the number of loop iterations entered on one object, over all its calls
MaxIterations == 2
\* The lag of the annual periodicity and of the degradation constraint, 365 days
\* in the code, scaled down: the model compares a day count with Year, Year + 1
\* and Year + 2 where the code compares it with 365, 365 + 1 and 365 + 2.
Year == 3

Rows == 1..NumRows
Cols == 1..RankK
\* day counts: the longest series without a degradation constraint, the one
\* series with that constraint and no periodicity term, and the shortest series
\* with a periodicity term
DayCounts == {Year, Year + 1, Year + 2}
Days(n) == 1..n

\* an array of size 0 (StateData's l_value, r_value, component_r0, weights)
Empty == << >>
\* an optional value: None, or Some(x)
None == << >>
Some(x) == <<x>>

\* --------------------------------------------------------------- arithmetic
Abs(x) == IF x < 0 THEN -x ELSE x

RECURSIVE SumTo(_, _, _)
\* sum of f[j] for j in lo..hi
SumTo(f, lo, hi) == IF lo > hi THEN 0 ELSE f[hi] + SumTo(f, lo, hi - 1)

RECURSIVE SqrtSearch(_, _, _)
SqrtSearch(x, lo, hi) ==
    IF lo >= hi THEN lo
    ELSE LET mid == (lo + hi + 1) \div 2
         IN  IF mid * mid <= x THEN SqrtSearch(x, mid, hi)
                               ELSE SqrtSearch(x, lo, mid - 1)

\* floor of the square root
ISqrt(x) == SqrtSearch(x, 0, 46340)

\* numpy.linalg.norm(., 'fro') of a matrix whose squared entries sum to ss, in hundredths
Norm100(ss) == ISqrt(10000 * ss)

RECURSIVE Gcd(_, _)
Gcd(a, b) == IF b = 0 THEN a ELSE Gcd(b, a % b)

\* ------------------------------------------------------------ float values
Num(a, b) == [k |-> "num", n |-> a, d |-> b]
Inf == [k |-> "inf", n |-> 0, d |-> 1]
NegInf == [k |-> "ninf", n |-> 0, d |-> 1]
NaN == [k |-> "nan", n |-> 0, d |-> 1]

\* a / b in float64: the quotient in lowest terms, +-inf for x/0, nan for 0/0
FloatDiv(a, b) ==
    IF b = 0 THEN (IF a = 0 THEN NaN ELSE IF a > 0 THEN Inf ELSE NegInf)
    ELSE LET g == Gcd(Abs(a), Abs(b))
             s == IF b < 0 THEN -1 ELSE 1
         IN  Num((s * a) \div g, (s * b) \div g)

\* x < 0
FloatNeg(x) == \/ x.k = "ninf"
               \/ x.k = "num" /\ x.n < 0

\* x * -1
FloatMinus(x) ==
    CASE x.k = "inf" -> NegInf
      [] x.k = "ninf" -> Inf
      [] x.k = "nan" -> NaN
      [] OTHER -> Num(-x.n, x.d)

\* x >= eps, eps in thousandths
FloatGe(x, eps) ==
    CASE x.k = "inf" -> TRUE
      [] x.k = "ninf" -> FALSE
      [] x.k = "nan" -> FALSE
      [] OTHER -> x.n * 1000 >= eps * x.d

\* x < eps, eps in thousandths
FloatLt(x, eps) ==
    CASE x.k = "inf" -> FALSE
      [] x.k = "ninf" -> TRUE
      [] x.k = "nan" -> FALSE
      [] OTHER -> x.n * 1000 < eps * x.d

\* ----------------------------------------------------------------- matrices
NRows(l) == Len(l)
NDays(r) == Len(r[1])

\* l.dot(r): an m x n matrix, as a sequence of rows
Dot(l, r) ==
    [i \in 1..Len(l) |->
        [j \in 1..NDays(r) |->
            SumTo([c \in 1..Len(r) |-> l[i][c] * r[c][j]], 1, Len(r))]]

\* sum of all entries of f over rows x columns
SumAll(f) == SumTo([i \in 1..Len(f) |-> SumTo(f[i], 1, Len(f[i]))], 1, Len(f))

\* every entry of the matrix is >= 0
NonNegative(a) == \A i \in 1..Len(a) : \A j \in 1..Len(a[i]) : a[i][j] >= 0

\* ------------------------------------------------------- objective evaluator
\* squared Frobenius norm of l[:-2, :] - 2 * l[1:-1, :] + l[2:, :]
SecondDiffRowsSS(l) ==
    SumTo([i \in 1..(Len(l) - 2) |->
              SumTo([c \in 1..Len(l[i]) |->
                        (l[i][c] - 2 * l[i + 1][c] + l[i + 2][c])
                        * (l[i][c] - 2 * l[i + 1][c] + l[i + 2][c])],
                    1, Len(l[i]))],
          1, Len(l) - 2)

\* squared Frobenius norm of r[:, :-2] - 2 * r[:, 1:-1] + r[:, 2:]
SecondDiffDaysSS(r) ==
    SumTo([c \in 1..Len(r) |->
              SumTo([j \in 1..(NDays(r) - 2) |->
                        (r[c][j] - 2 * r[c][j + 1] + r[c][j + 2])
                        * (r[c][j] - 2 * r[c][j + 1] + r[c][j + 2])],
                    1, NDays(r) - 2)],
          1, Len(r))

\* squared Frobenius norm of r[:, :-365] - r[:, 365:]: every row, row 0 included
YearDiffAllRowsSS(r) ==
    SumTo([c \in 1..Len(r) |->
              SumTo([j \in 1..(NDays(r) - Year) |->
                        (r[c][j] - r[c][j + Year]) * (r[c][j] - r[c][j + Year])],
                    1, NDays(r) - Year)],
          1, Len(r))

\* squared Frobenius norm of r[1:, :-365] - r[1:, 365:]: rows 2..k in 1-based indexing
YearDiffSS(r) ==
    SumTo([c \in 1..Len(r) |->
              IF c = 1 THEN 0
              ELSE SumTo([j \in 1..(NDays(r) - Year) |->
                             (r[c][j] - r[c][j + Year]) * (r[c][j] - r[c][j + Year])],
                         1, NDays(r) - Year)],
          1, Len(r))

\* sum((0.5 * abs(d - l.r) + (tau - 0.5) * (d - l.r)) * diag(weights)), in hundredths
TermF1(tau, d, l, r, weights) ==
    LET lr == Dot(l, r)
    IN  SumAll([i \in 1..Len(d) |->
                   [j \in 1..Len(d[i]) |->
                       (5 * Abs(d[i][j] - lr[i][j]) + (tau - 5) * (d[i][j] - lr[i][j]))
                       * weights[j]]])

\* IterativeFitting._calculate_objective(..., sum_components=False)
CalculateObjective(mu_l, mu_r, tau, d, l_cs_value, r_cs_value, weights) ==
    LET term_f1 == TermF1(tau, d, l_cs_value, r_cs_value, weights)
        term_f2 == mu_l * Norm100(SecondDiffRowsSS(l_cs_value))
        term_f3 == mu_r * Norm100(SecondDiffDaysSS(r_cs_value))
        term_f4 == IF NDays(r_cs_value) < Year + 2 THEN 0
                   ELSE mu_r * Norm100(YearDiffSS(r_cs_value))
    IN  <<term_f1, term_f2, term_f3, term_f4>>

\* np.sum(objective_values)
SumComponents(o) == o[1] + o[2] + o[3] + o[4]

\* ------------------------------------------------------------ input pools
\* the day after which a candidate row changes its level
Break(n) == IF n > Year THEN Year ELSE 1

\* a row of n days: level p up to the break, q after it
RowVec(n, p, q) == [j \in Days(n) |-> IF j > Break(n) THEN q ELSE p]

\* a k x n right matrix: row 1 is RowVec(p, q), the other rows RowVec(s, t)
RMat(n, p, q, s, t) == [c \in Cols |-> IF c = 1 THEN RowVec(n, p, q) ELSE RowVec(n, s, t)]

\* an m x k left matrix: column 1 is a, column 2 is (b, t, 0, ...), the others 0
LMat(a, b, t) ==
    [i \in Rows |->
        [c \in Cols |-> IF c = 1 THEN a
                        ELSE IF c = 2 THEN (IF i = 1 THEN b ELSE IF i = 2 THEN t ELSE 0)
                        ELSE 0]]

\* an m x n measurement matrix: row 1 at level a, the other rows at level b,
\* day 2 lowered by cl (a cloudy day)
DMat(n, a, b, cl) ==
    [i \in Rows |->
        [j \in Days(n) |->
            LET v == IF i = 1 THEN a ELSE b
            IN  IF j = 2 /\ v >= cl THEN v - cl ELSE v]]

\* what the left solver may return
LPool == {LMat(a, bt[1], bt[2]) : a \in {-1, 0, 1}, bt \in {<<0, 0>>, <<1, -1>>, <<1, 0>>}}

\* what the right solver may return
RPool(n) == {RMat(n, 0, 0, 0, 0), RMat(n, 4, 4, 0, 0), RMat(n, 4, 3, 0, 0),
             RMat(n, 4, 4, 1, 0)}

\* the degradation rates the right solver may return, in quarters
BetaPool == {-2, -1, 0, 1}

\* the measurement matrices of the model
DPool(n) == <<DMat(n, 4, 4, 0), DMat(n, 4, 0, 1), DMat(n, 0, 0, 0)>>

\* per-day clear-day scores before the threshold, in tenths: day 2 scores wb, the others wa
ScoreVec(n, wa, wb) == [j \in Days(n) |-> IF j = 2 THEN wb ELSE wa]
ScorePool(n) == <<ScoreVec(n, 10, 10), ScoreVec(n, 10, 3), ScoreVec(n, 3, 3)>>

\* the leading factors (U[:, :k], diag(Sigma[:k]) . V[:k, :]) np.linalg.svd may
\* return, before the sign adjustment
SvdPool(n) == <<<<LMat(1, 0, 0), RMat(n, 4, 4, 0, 0)>>,
                <<LMat(-1, 0, 0), RMat(n, -4, -3, 0, 0)>>,
                <<LMat(1, 1, -1), RMat(n, 0, 0, 1, 1)>>,
                <<LMat(1, 0, 0), RMat(n, 0, 0, 0, 0)>>>>

\* the day sets np.random.choice may reserve as test days; the empty set stands
\* for None, nothing reserved
TestDayPool(n) == <<{}, {2}, {1, n}, Days(n)>>

\* the smoothed row-0 envelopes LinearizationHelper.obtain_component_r0 may return
EnvelopePool(n) == <<RowVec(n, 4, 4), RowVec(n, 0, 4)>>

\* the inputs of one object, by day count and places in the pools
Scenario(n, d, svd, env, sc, td) ==
    [n |-> n, d |-> d, svd |-> svd, env |-> env, sc |-> sc, td |-> td]

Scenarios ==
    {Scenario(n, 1, 1, 1, 1, 1) : n \in DayCounts}         \* clear days, nothing reserved
    \cup {Scenario(Year, 3, 4, 1, 1, 1),                   \* no signal at all
          Scenario(Year, 2, 1, 1, 2, 1),                   \* a dark row and a cloudy day
          Scenario(Year, 1, 1, 1, 3, 1),                   \* every day below the threshold
          Scenario(Year + 1, 1, 1, 1, 1, 4),               \* every day reserved
          Scenario(Year + 2, 1, 1, 1, 1, 2),               \* day 2 reserved
          Scenario(Year + 1, 1, 1, 1, 2, 3),               \* first and last day reserved
          Scenario(Year, 1, 3, 1, 1, 1),                   \* a seed with negative entries in L0.R0
          Scenario(Year + 1, 1, 2, 1, 1, 1),               \* a seed whose sign is adjusted
          Scenario(Year + 2, 1, 1, 2, 1, 1)}               \* an envelope that starts at 0

\* exit_criterion_epsilon, in thousandths (1e-3 is the default)
EpsPool == {0, 1, 500}

\* execute's defaults: mu_l = 1.0, mu_r = 20.0, tau = 0.8 (in tenths)
DefaultMuL == 1
DefaultMuR == 20
DefaultTau == 8

\* weights[weights < 0.6] = 0., in tenths
WeightThreshold == 6

\* ------------------------------------------------------------ minimizers
\* np.average(d, axis=1)[i] <= 1e-5
RowIsDark(d, i) == SumTo(d[i], 1, Len(d[i])) * 100000 <= Len(d[i])

\* the constraints of the left problem: l.r >= 0, dark rows of l are 0,
\* the columns of l after the first sum to 0
LeftConstraints(d, l, r) ==
    /\ NonNegative(Dot(l, r))
    /\ \A i \in 1..Len(l) : RowIsDark(d, i) => \A c \in 1..Len(l[i]) : l[i][c] = 0
    /\ \A c \in 2..Len(r) : SumTo([i \in 1..Len(l) |-> l[i][c]], 1, Len(l)) = 0

\* the right problem without its constraint l.r >= 0
RightConstraintsWithoutSign(d, l, r, beta, r0, calc_deg, max_deg, min_deg) ==
    NDays(d) > Year =>
          IF calc_deg
          THEN /\ \A j \in 1..(NDays(d) - Year) :
                     /\ r0[j] # 0
                     /\ 4 * (r[1][j + Year] - r[1][j]) = beta * r0[j]
               /\ beta >= -1
               /\ max_deg # None => beta <= max_deg[1]
               /\ min_deg # None => beta >= min_deg[1]
          ELSE \A j \in 1..(NDays(d) - Year) :
                     /\ r0[j] # 0
                     /\ r[1][j + Year] - r[1][j] = 0

\* the constraints of the right problem on (r, beta), given l and the reference r0
RightConstraints(d, l, r, beta, r0, calc_deg, max_deg, min_deg) ==
    /\ NonNegative(Dot(l, r))
    /\ NDays(d) > Year =>
          IF calc_deg
          THEN /\ \A j \in 1..(NDays(d) - Year) :
                     /\ r0[j] # 0
                     /\ 4 * (r[1][j + Year] - r[1][j]) = beta * r0[j]
               /\ beta >= -1
               /\ max_deg # None => beta <= max_deg[1]
               /\ min_deg # None => beta >= min_deg[1]
          ELSE \A j \in 1..(NDays(d) - Year) :
                     /\ r0[j] # 0
                     /\ r[1][j + Year] - r[1][j] = 0

\* beta is a variable of the right problem only under these conditions
BetaIsSolved(d, calc_deg) == NDays(d) > Year /\ calc_deg

\* the values an optimal left solve may leave in L
LeftSolutions(d, r) == {l \in LPool : LeftConstraints(d, l, r)}

\* the (R, beta) pairs an optimal right solve may leave; beta keeps its value
\* when it is no variable of the problem
RightSolutions(d, l, beta_in, r0, calc_deg, max_deg, min_deg) ==
    {rb \in RPool(NDays(d)) \X (IF BetaIsSolved(d, calc_deg) THEN BetaPool ELSE {beta_in}) :
        RightConstraints(d, l, rb[1], rb[2], r0, calc_deg, max_deg, min_deg)}

\* the statuses of a solve that is not optimal
BadStatus == {"optimal_inaccurate", "infeasible"}

\* the reference r0 of the right minimizer after a solve that returned r:
\* refreshed from row 0 of r
RefreshedR0(r0, r) == r[1]

\* ------------------------------------------------------------------ weights
\* the thresholding at the end of the weight computation
ThresholdWeights(scores) ==
    [j \in 1..Len(scores) |-> IF scores[j] < WeightThreshold THEN 0 ELSE scores[j]]

\* weights[test_days] = 0
ZeroTestDays(weights, days) ==
    [j \in 1..Len(weights) |-> IF j \in days THEN 0 ELSE weights[j]]

\* ------------------------------------------------------------------- state
VARIABLES
    power_signals_d,   \* IterativeFitting._power_signals_d
    svd_argument,      \* history: the matrix __init__ handed to np.linalg.svd
    matrix_l0,         \* _left_low_rank_matrix_u[:, :rank_k]
    matrix_r0,         \* diag(_singular_values_sigma[:rank_k]) . _right_low_rank_matrix_v[:rank_k, :]
    envelope,          \* what obtain_component_r0 returns for this data
    scores,            \* the per-day scores the weight setting computes for this data
    test_days,         \* _test_days
    state_data,        \* _state_data, the FitState snapshot
    result,            \* _l_cs_value, _r_cs_value, _beta_value (absent before the first execute)
    residuals,         \* _residuals_median, _residuals_variance, _residual_l0_norm
    frame,             \* the locals of execute and _minimize_objective, and where it stands
    arguments,         \* exit_criterion_epsilon and max_iteration of the execute calls
    calls,             \* number of execute calls started
    iterations,        \* number of loop iterations entered, over all calls
    boundary,          \* history: the values current at the last iteration boundary
    runs,              \* history: how each finished execute call ended
    cs,                \* the IterativeClearSky object: D, L_cs, R_cs, beta, r0, weights, ...
    cs_frame,          \* the locals of minimize_objective, and where it stands
    cs_calls,          \* number of minimize_objective calls started
    cs_iterations,     \* number of loop iterations entered, over all calls
    solves             \* history: the status of each solve and whether it was raised

fit_vars == <<power_signals_d, svd_argument, matrix_l0, matrix_r0, envelope, scores, test_days,
              arguments, state_data, result, residuals, frame, calls, iterations,
              boundary, runs>>
inputs == <<power_signals_d, svd_argument, matrix_l0, matrix_r0, envelope, scores, test_days, arguments>>
cs_vars == <<cs, cs_frame, cs_calls, cs_iterations, solves>>
vars == <<fit_vars, cs_vars>>

Idle == [pc |-> "idle"]

\* StateData()
NewStateData ==
    [l_value |-> Empty, r_value |-> Empty, beta_value |-> 0, component_r0 |-> Empty,
     weights |-> Empty, mu_l |-> None, mu_r |-> None, tau |-> None,
     is_solver_error |-> FALSE, is_problem_status_error |-> FALSE,
     f1_increase |-> FALSE, obj_increase |-> FALSE,
     residuals_median |-> None, residuals_variance |-> None, residual_l0_norm |-> None]

\* _adjust_low_rank_matrices on the rank_k leading factors: if the first column of
\* U sums below 0, that column and the first row of V change sign
AdjustLowRankMatrices(u, sv) ==
    IF SumTo([i \in 1..Len(u) |-> u[i][1]], 1, Len(u)) < 0
    THEN <<[i \in 1..Len(u) |-> [c \in 1..Len(u[i]) |-> IF c = 1 THEN -u[i][c] ELSE u[i][c]]],
           [c \in 1..Len(sv) |-> IF c = 1 THEN [j \in 1..Len(sv[c]) |-> -sv[c][j]] ELSE sv[c]]>>
    ELSE <<u, sv>>

\* _set_testdays and _set_residuals leave these before the first execute
NoResiduals == [median |-> None, variance |-> None, l0_norm |-> None]

\* no IterativeClearSky object is in play
CsAbsent ==
    /\ cs = None
    /\ cs_frame = None
    /\ cs_calls = 0
    /\ cs_iterations = 0
    /\ solves = {}

\* what fix_time_shifts may return for the raw matrix: the matrix itself when it
\* finds no shift, another matrix when it corrects one
FixTimeShifts(n, raw) == IF raw = DPool(n)[2] THEN {raw, DPool(n)[1]} ELSE {raw}

\* _handle_time_shift; np.isclose is equality on the integer entries
HandleTimeShift(raw, power_signals_d_fix, auto_fix_time_shifts) ==
    IF auto_fix_time_shifts /\ power_signals_d_fix # raw THEN power_signals_d_fix ELSE raw

\* IterativeFitting.__init__: _power_signals_d is what _handle_time_shift returns,
\* np.linalg.svd is called on the argument power_signals_d
FitInit ==
    \E s \in Scenarios, auto_fix_time_shifts \in BOOLEAN :
      \E power_signals_d_fix \in FixTimeShifts(s.n, DPool(s.n)[s.d]) :
      LET n == s.n IN
        /\ power_signals_d = HandleTimeShift(DPool(n)[s.d], power_signals_d_fix,
                                             auto_fix_time_shifts)
        /\ svd_argument = DPool(n)[s.d]
        /\ matrix_l0 = AdjustLowRankMatrices(SvdPool(n)[s.svd][1], SvdPool(n)[s.svd][2])[1]
        /\ matrix_r0 = AdjustLowRankMatrices(SvdPool(n)[s.svd][1], SvdPool(n)[s.svd][2])[2]
        /\ envelope = EnvelopePool(n)[s.env]
        /\ scores = ScorePool(n)[s.sc]
        /\ test_days = TestDayPool(n)[s.td]
        /\ arguments \in [exit_criterion_epsilon : EpsPool, max_iteration : 1..MaxIterCap]
        /\ state_data = NewStateData
        /\ result = [l_cs_value |-> Empty, r_cs_value |-> Empty, beta_value |-> 0]
        /\ residuals = NoResiduals
        /\ frame = Idle
        /\ calls = 0
        /\ iterations = 0
        /\ boundary = [l_value |-> Empty, r_value |-> Empty, beta_value |-> 0,
                        component_r0 |-> Empty]
        /\ runs = << >>
        /\ CsAbsent

\* initial values that ignore the snapshot: always the SVD seed
ObtainSeedValues ==
    [l_cs_value |-> matrix_l0, r_cs_value |-> matrix_r0, beta_value |-> 0]

\* _obtain_initial_values
ObtainInitialValues ==
    [l_cs_value |-> IF Len(state_data.l_value) > 0 THEN state_data.l_value ELSE matrix_l0,
     r_cs_value |-> IF Len(state_data.r_value) > 0 THEN state_data.r_value ELSE matrix_r0,
     beta_value |-> IF state_data.beta_value # 0 THEN state_data.beta_value ELSE 0]

\* _obtain_initial_component_r0
ObtainInitialComponentR0 ==
    IF Len(state_data.component_r0) > 0 THEN state_data.component_r0 ELSE envelope

\* _obtain_weights
ObtainWeights ==
    IF Len(state_data.weights) > 0 THEN state_data.weights
    ELSE ZeroTestDays(ThresholdWeights(scores), test_days)

\* _store_minimization_state_data
StoreMinimizationStateData(sd, l_cs_value, r_cs_value, beta_value, component_r0) ==
    [sd EXCEPT !.mu_l = Some(DefaultMuL), !.mu_r = Some(DefaultMuR),
               !.tau = Some(DefaultTau),
               !.l_value = l_cs_value, !.r_value = r_cs_value,
               !.beta_value = beta_value, !.component_r0 = component_r0]

\* _store_final_state_data
StoreFinalStateData(sd, res, weights) ==
    [sd EXCEPT !.residuals_median = res.median, !.residuals_variance = res.variance,
               !.residual_l0_norm = res.l0_norm, !.weights = weights]

\* _analyze_residuals: the median and the variance of the scaled weighted residuals
\* are recorded by the call that computed them; residual_l0_norm is
\* norm(matrix_l0[:, 0] - l_cs_value[:, 0]) in hundredths
AnalyzeResiduals(l_cs_value, call) ==
    [median |-> Some(call), variance |-> Some(call),
     l0_norm |-> Some(Norm100(SumTo([i \in 1..Len(l_cs_value) |->
                                   (matrix_l0[i][1] - l_cs_value[i][1])
                                   * (matrix_l0[i][1] - l_cs_value[i][1])],
                               1, Len(l_cs_value))))]

\* ------------------------------------------------------ IterativeFitting
\* execute, up to the first test of the while loop: the initial values, r0 and
\* weights, the starting objective and the two minimizers.  The calls on one
\* object pass the same exit_criterion_epsilon and max_iteration.
Execute(is_degradation_calculated) ==
    /\ frame.pc = "idle"
    /\ calls < MaxCalls
    /\ LET init == ObtainInitialValues
           component_r0 == ObtainInitialComponentR0
           weights == ObtainWeights
           objective_values ==
               CalculateObjective(DefaultMuL, DefaultMuR, DefaultTau, power_signals_d,
                                  init.l_cs_value, init.r_cs_value, weights)
       IN  /\ result' = init
           /\ frame' = [pc |-> "while",
                        l_cs_value |-> init.l_cs_value,
                        r_cs_value |-> init.r_cs_value,
                        beta_value |-> init.beta_value,
                        component_r0 |-> component_r0,
                        weights |-> weights,
                        improvement |-> Inf,
                        old_objective_value |-> SumComponents(objective_values),
                        iteration |-> 0,
                        f1_last |-> objective_values[1],
                        objective_values |-> objective_values,
                        f1_before |-> objective_values[1],
                        f1_flagged |-> FALSE,
                        right_r0 |-> component_r0,
                        exit_criterion_epsilon |-> arguments.exit_criterion_epsilon,
                        max_iteration |-> arguments.max_iteration,
                        is_degradation_calculated |-> is_degradation_calculated,
                        before_objective_value |-> 0]
           /\ boundary' = [l_value |-> init.l_cs_value, r_value |-> init.r_cs_value,
                           beta_value |-> init.beta_value, component_r0 |-> component_r0]
    /\ calls' = calls + 1
    /\ UNCHANGED <<inputs, cs_vars, state_data, residuals, iterations, runs>>

\* the while test holds: the snapshot at the start of the iteration
LoopEnter ==
    /\ frame.pc = "while"
    /\ FloatGe(frame.improvement, frame.exit_criterion_epsilon)
    /\ iterations < MaxIterations
    /\ iterations' = iterations + 1
    /\ state_data' = StoreMinimizationStateData(state_data, frame.l_cs_value,
                         frame.r_cs_value, frame.beta_value, frame.component_r0)
    /\ frame' = [frame EXCEPT !.pc = "left"]
    /\ UNCHANGED <<inputs, cs_vars, result, residuals, calls, boundary, runs>>

\* the history entry of the call that ends: how it ended, after how many
\* completed iterations, with or without degradation, the values it leaves in the
\* accessors and the L it held when it ended
Run(kind, published) ==
    [kind |-> kind, iteration |-> frame.iteration,
     is_degradation_calculated |-> frame.is_degradation_calculated,
     final |-> published, l_cs_value |-> frame.l_cs_value]

Failures == {"solver_error", "status_error"}

\* left_matric_minimization.minimize returns
LeftOptimal ==
    /\ frame.pc = "left"
    /\ \E l \in LeftSolutions(power_signals_d, frame.r_cs_value) :
          frame' = [frame EXCEPT !.pc = "right", !.l_cs_value = l]
    /\ UNCHANGED <<inputs, cs_vars, state_data, result, residuals, calls, iterations, boundary, runs>>

\* except branches that also store the values in flight when the exception came
FailedStoringInFlight(kind) ==
    /\ state_data' =
          StoreFinalStateData(
              StoreMinimizationStateData(
                  IF kind = "solver_error" THEN [state_data EXCEPT !.is_solver_error = TRUE]
                  ELSE [state_data EXCEPT !.is_problem_status_error = TRUE],
                  frame.l_cs_value, frame.r_cs_value, frame.beta_value, frame.component_r0),
              residuals, frame.weights)
    /\ frame' = Idle
    /\ runs' = Append(runs, Run(kind, result))
    /\ UNCHANGED <<inputs, cs_vars, result, residuals, calls, iterations, boundary>>

\* the except branches of _minimize_objective, then _store_final_state_data
Failed(kind) ==
    /\ state_data' =
          StoreFinalStateData(
              IF kind = "solver_error" THEN [state_data EXCEPT !.is_solver_error = TRUE]
              ELSE [state_data EXCEPT !.is_problem_status_error = TRUE],
              residuals, frame.weights)
    /\ frame' = Idle
    /\ runs' = Append(runs, Run(kind, result))
    /\ UNCHANGED <<inputs, cs_vars, result, residuals, calls, iterations, boundary>>

\* left_matric_minimization.minimize raises cvx.SolverError or ProblemStatusError
LeftFails ==
    /\ frame.pc = "left"
    /\ \E kind \in Failures : Failed(kind)

\* the rest of the loop body once right_matric_minimization.minimize has returned
\* (r, beta): r0, the objective, the improvement, the flags and the snapshot at
\* the end of the iteration
AfterRight(r, beta) ==
    LET component_r0 == r[1]
        objective_values ==
            CalculateObjective(DefaultMuL, DefaultMuR, DefaultTau, power_signals_d,
                               frame.l_cs_value, r, frame.weights)
        new_objective_value == SumComponents(objective_values)
        quotient == FloatDiv(frame.old_objective_value - new_objective_value,
                             frame.old_objective_value)
        iteration == frame.iteration + 1
        increased == FloatNeg(quotient)
        magnitude == IF increased THEN FloatMinus(quotient) ELSE quotient
        improvement == IF iteration >= frame.max_iteration THEN Num(0, 1) ELSE magnitude
    IN  /\ frame' = [frame EXCEPT !.pc = "while",
                                  !.r_cs_value = r,
                                  !.beta_value = beta,
                                  !.component_r0 = component_r0,
                                  !.right_r0 = RefreshedR0(frame.right_r0, r),
                                  !.improvement = improvement,
                                  !.before_objective_value = frame.old_objective_value,
                                  !.old_objective_value = new_objective_value,
                                  !.objective_values = objective_values,
                                  !.f1_before = frame.objective_values[1],
                                  !.f1_flagged = objective_values[1] > frame.f1_last,
                                  !.iteration = iteration]
        /\ state_data' =
              StoreMinimizationStateData(
                  [state_data EXCEPT
                      !.f1_increase = @ \/ objective_values[1] > frame.f1_last,
                      !.obj_increase = @ \/ increased],
                  frame.l_cs_value, r, beta, component_r0)
        /\ boundary' = [l_value |-> frame.l_cs_value, r_value |-> r,
                        beta_value |-> beta, component_r0 |-> component_r0]

\* right_matric_minimization.minimize returns
RightOptimal ==
    /\ frame.pc = "right"
    /\ \E rb \in RightSolutions(power_signals_d, frame.l_cs_value, frame.beta_value,
                                frame.right_r0, frame.is_degradation_calculated,
                                None, None) :
          AfterRight(rb[1], rb[2])
    /\ UNCHANGED <<inputs, cs_vars, result, residuals, calls, iterations, runs>>

\* right_matric_minimization.minimize raises cvx.SolverError or ProblemStatusError
RightFails ==
    /\ frame.pc = "right"
    /\ \E kind \in Failures : Failed(kind)

\* the while test fails: the else branch of _minimize_objective, then
\* _store_final_state_data
LoopExit ==
    /\ frame.pc = "while"
    /\ ~FloatGe(frame.improvement, frame.exit_criterion_epsilon)
    /\ residuals' = AnalyzeResiduals(frame.l_cs_value, calls)
    /\ result' = [l_cs_value |-> frame.l_cs_value, r_cs_value |-> frame.r_cs_value,
                  beta_value |-> frame.beta_value]
    /\ state_data' = StoreFinalStateData(state_data, residuals', frame.weights)
    /\ frame' = Idle
    /\ runs' = Append(runs, Run(IF frame.iteration >= frame.max_iteration
                                 THEN "max_iter" ELSE "converged", result'))
    /\ UNCHANGED <<inputs, cs_vars, calls, iterations, boundary>>

FitNext ==
    \/ \E deg \in BOOLEAN : Execute(deg)
    \/ LoopEnter
    \/ LeftOptimal
    \/ LeftFails
    \/ RightOptimal
    \/ RightFails
    \/ LoopExit

Spec == FitInit /\ [][FitNext]_vars

\* ------------------------------------------------------ IterativeClearSky
\* no IterativeFitting object is in play
FitAbsent ==
    /\ power_signals_d = None
    /\ svd_argument = None
    /\ matrix_l0 = None
    /\ matrix_r0 = None
    /\ envelope = None
    /\ scores = None
    /\ test_days = {}
    /\ arguments = None
    /\ state_data = None
    /\ result = None
    /\ residuals = None
    /\ frame = None
    /\ calls = 0
    /\ iterations = 0
    /\ boundary = None
    /\ runs = << >>

\* minimize_objective's defaults max_deg = 0. and min_deg = -0.25, in quarters
DefaultMaxDeg == 0
DefaultMinDeg == -1

\* the statuses a solve of the two unconstrained problems of __init__ may end with
ConstructionStatus == {"optimal", "optimal_inaccurate"}

\* a solve, as the history keeps it
Solve(site, status, raised) == [site |-> site, status |-> status, raised |-> raised]

\* IterativeClearSky.__init__: neither prob.solve is followed by a look at
\* prob.status, and the weights of the test days are left as computed
CsInit ==
    \E s \in Scenarios, r0_status \in ConstructionStatus, de_status \in ConstructionStatus :
      LET n == s.n
          seed == AdjustLowRankMatrices(SvdPool(n)[s.svd][1], SvdPool(n)[s.svd][2])
      IN  /\ cs = [D |-> DPool(n)[s.d],
                   L_cs |-> seed[1],
                   R_cs |-> seed[2],
                   beta |-> 0,
                   r0 |-> EnvelopePool(n)[s.env],
                   weights |-> ThresholdWeights(ScorePool(n)[s.sc]),
                   test_days |-> TestDayPool(n)[s.td],
                   good_fit |-> FALSE]
          /\ solves = {Solve("r0", r0_status, FALSE), Solve("de", de_status, FALSE)}
          /\ cs_frame = [pc |-> "new"]
          /\ cs_calls = 0
          /\ cs_iterations = 0
          /\ FitAbsent

\* IterativeClearSky.calc_objective()
CalcObjective ==
    SumComponents(CalculateObjective(DefaultMuL, DefaultMuR, DefaultTau, cs.D,
                                     cs.L_cs, cs.R_cs, cs.weights))

\* minimize_objective, up to the first test of the while loop
MinimizeObjective(eps, max_iter, calc_deg) ==
    /\ cs_frame.pc \in {"new", "returned"}
    /\ cs_calls < MaxCalls
    /\ cs_calls' = cs_calls + 1
    /\ cs_frame' = [pc |-> "while", improvement |-> Inf, old_obj |-> CalcObjective,
                    it |-> 0, eps |-> eps, max_iter |-> max_iter, calc_deg |-> calc_deg,
                    max_deg |-> Some(DefaultMaxDeg), min_deg |-> Some(DefaultMinDeg),
                    r0_used |-> None]
    /\ cs' = [cs EXCEPT !.good_fit = TRUE]
    /\ UNCHANGED <<fit_vars, cs_iterations, solves>>

\* the while test holds: the weights of the test days are set to 0
CsLoopEnter ==
    /\ cs_frame.pc = "while"
    /\ FloatGe(cs_frame.improvement, cs_frame.eps)
    /\ cs_iterations < MaxIterations
    /\ cs_iterations' = cs_iterations + 1
    /\ cs' = [cs EXCEPT !.weights = ZeroTestDays(cs.weights, cs.test_days)]
    /\ cs_frame' = [cs_frame EXCEPT !.pc = "min_L"]
    /\ UNCHANGED <<fit_vars, cs_calls, solves>>

\* min_L: the solve ends optimal
MinLOptimal ==
    /\ cs_frame.pc = "min_L"
    /\ \E l \in LeftSolutions(cs.D, cs.R_cs) : cs' = [cs EXCEPT !.L_cs = l]
    /\ cs_frame' = [cs_frame EXCEPT !.pc = "min_R"]
    /\ solves' = solves \cup {Solve("min_L", "optimal", FALSE)}
    /\ UNCHANGED <<fit_vars, cs_calls, cs_iterations>>

\* what an exception leaves of the locals: minimize_objective is left at once
Raised == [pc |-> "raised", calc_deg |-> cs_frame.calc_deg, it |-> cs_frame.it]

\* min_L: the solve ends with another status and ProblemStatusError is raised;
\* the solver has left in L_cs an inexact value, or None when there is none
MinLRaises ==
    /\ cs_frame.pc = "min_L"
    /\ \E status \in BadStatus :
          /\ IF status = "optimal_inaccurate"
             THEN \E l \in LPool : cs' = [cs EXCEPT !.L_cs = l]
             ELSE cs' = [cs EXCEPT !.L_cs = None]
          /\ solves' = solves \cup {Solve("min_L", status, TRUE)}
    /\ cs_frame' = Raised
    /\ UNCHANGED <<fit_vars, cs_calls, cs_iterations>>

\* a loop body in which min_R leaves r0 as it was
CsAfterRightKeepingR0(r, beta) ==
    LET new_obj == SumComponents(CalculateObjective(DefaultMuL, DefaultMuR, DefaultTau,
                                     cs.D, cs.L_cs, r, cs.weights))
        quotient == FloatDiv(cs_frame.old_obj - new_obj, cs_frame.old_obj)
        it == cs_frame.it + 1
        increased == FloatNeg(quotient)
        magnitude == IF increased THEN FloatMinus(quotient) ELSE quotient
    IN  /\ cs' = [cs EXCEPT !.R_cs = r, !.beta = beta, !.good_fit = @ /\ ~increased]
        /\ cs_frame' = [cs_frame EXCEPT
                           !.pc = "while",
                           !.old_obj = new_obj,
                           !.it = it,
                           !.r0_used = cs.r0,
                           !.improvement = IF it >= cs_frame.max_iter THEN Num(0, 1)
                                           ELSE magnitude]

\* min_R has returned (r, beta): r0 becomes row 0 of R_cs, then the rest of the
\* loop body: the objective, the improvement, good_fit and the cap; r0_used keeps
\* the reference the constraints of this solve were built on
CsAfterRight(r, beta) ==
    LET new_obj == SumComponents(CalculateObjective(DefaultMuL, DefaultMuR, DefaultTau,
                                     cs.D, cs.L_cs, r, cs.weights))
        quotient == FloatDiv(cs_frame.old_obj - new_obj, cs_frame.old_obj)
        it == cs_frame.it + 1
        increased == FloatNeg(quotient)
        magnitude == IF increased THEN FloatMinus(quotient) ELSE quotient
    IN  /\ cs' = [cs EXCEPT !.R_cs = r, !.beta = beta, !.r0 = r[1],
                            !.good_fit = @ /\ ~increased]
        /\ cs_frame' = [cs_frame EXCEPT
                           !.pc = "while",
                           !.old_obj = new_obj,
                           !.it = it,
                           !.r0_used = cs.r0,
                           !.improvement = IF it >= cs_frame.max_iter THEN Num(0, 1)
                                           ELSE magnitude]

\* min_R: the solve ends optimal
MinROptimal ==
    /\ cs_frame.pc = "min_R"
    /\ \E rb \in RightSolutions(cs.D, cs.L_cs, cs.beta, cs.r0, cs_frame.calc_deg,
                                cs_frame.max_deg, cs_frame.min_deg) :
          CsAfterRight(rb[1], rb[2])
    /\ solves' = solves \cup {Solve("min_R", "optimal", FALSE)}
    /\ UNCHANGED <<fit_vars, cs_calls, cs_iterations>>

\* min_R: the solve ends with another status and ProblemStatusError is raised;
\* the solver has left in R_cs, and in beta when it is a variable of the problem,
\* inexact values, or None when there are none; r0 is not refreshed
MinRRaises ==
    /\ cs_frame.pc = "min_R"
    /\ \E status \in BadStatus :
          /\ IF status = "optimal_inaccurate"
             THEN \E r \in RPool(NDays(cs.D)),
                     beta \in (IF BetaIsSolved(cs.D, cs_frame.calc_deg)
                               THEN BetaPool ELSE {cs.beta}) :
                     cs' = [cs EXCEPT !.R_cs = r, !.beta = beta]
             ELSE cs' = [cs EXCEPT !.R_cs = None,
                                   !.beta = IF BetaIsSolved(cs.D, cs_frame.calc_deg)
                                            THEN None ELSE @]
          /\ solves' = solves \cup {Solve("min_R", status, TRUE)}
    /\ cs_frame' = Raised
    /\ UNCHANGED <<fit_vars, cs_calls, cs_iterations>>

\* the while test fails: minimize_objective returns
CsLoopExit ==
    /\ cs_frame.pc = "while"
    /\ ~FloatGe(cs_frame.improvement, cs_frame.eps)
    /\ cs_frame' = [pc |-> "returned", calc_deg |-> cs_frame.calc_deg, it |-> cs_frame.it]
    /\ UNCHANGED <<fit_vars, cs, cs_calls, cs_iterations, solves>>

CsNext ==
    \/ \E eps \in EpsPool, max_iter \in 1..MaxIterCap, calc_deg \in BOOLEAN :
          MinimizeObjective(eps, max_iter, calc_deg)
    \/ CsLoopEnter
    \/ MinLOptimal
    \/ MinLRaises
    \/ MinROptimal
    \/ MinRRaises
    \/ CsLoopExit

SpecCS == CsInit /\ [][CsNext]_vars

\* ================================================================= claims
LastRun == runs[Len(runs)]
Returned == frame.pc = "idle" /\ Len(runs) >= 1
AllZero(w) == \A j \in 1..Len(w) : w[j] = 0

\* C1: once the iteration count has reached max_iteration at the end of an
\* iteration, the loop exits: it never starts a further iteration, whatever the
\* exit epsilon.
C1_LoopExitsAtCap ==
    ~(/\ frame.pc = "left"
      /\ frame.iteration >= 1
      /\ frame.iteration >= frame.max_iteration)

\* C2: when the loop exits below the iteration cap, the last iteration satisfied
\* |new_objective - old_objective| / old_objective < exit_criterion_epsilon.
C2_ExitBelowCapMeansConverged ==
    (/\ frame.pc = "while"
     /\ frame.iteration >= 1
     /\ frame.iteration < frame.max_iteration
     /\ ~FloatGe(frame.improvement, frame.exit_criterion_epsilon))
    => FloatLt(FloatDiv(Abs(frame.old_objective_value - frame.before_objective_value),
                        frame.before_objective_value),
               frame.exit_criterion_epsilon)

\* C3: after an execute call that ended in a solver failure, the snapshot holds
\* the L, R, beta and r0 that were current at the last iteration boundary before
\* the failure (the initial values when the first iteration failed).
C3_FailureKeepsLastBoundary ==
    (Returned /\ LastRun.kind \in Failures)
    => /\ state_data.l_value = boundary.l_value
       /\ state_data.r_value = boundary.r_value
       /\ state_data.beta_value = boundary.beta_value
       /\ state_data.component_r0 = boundary.component_r0

\* C3 witness: the right step of a second iteration failed after its left step
\* had produced an L other than the one of the boundary.
C3_Witness ==
    /\ Returned
    /\ LastRun.kind \in Failures
    /\ LastRun.iteration = 1
    /\ LastRun.l_cs_value # boundary.l_value
    /\ state_data.l_value = boundary.l_value

\* C4: after every execute call a failure flag is set if and only if that call
\* ended in a solver failure.
C4_FlagIffThisCallFailed ==
    Returned =>
        ((state_data.is_solver_error \/ state_data.is_problem_status_error)
            <=> LastRun.kind \in Failures)

\* C5: every solve that ended with a status other than optimal was reported as
\* an error: at construction as in min_L and min_R.
C5_NonOptimalStatusIsRaised ==
    \A s \in solves : s.status # "optimal" => s.raised

Normal == {"converged", "max_iter"}
SameArguments(a, b) == a.is_degradation_calculated = b.is_degradation_calculated

\* C6: an execute started from the snapshot of an iteration boundary ends with
\* the L, R, beta and iteration outcome of the uninterrupted run; at the
\* boundary where the uninterrupted run stopped, with the values of that
\* snapshot and no further iteration.
C6_ResumeAtStopAddsNothing ==
    \A i \in 2..Len(runs) :
        (/\ runs[i - 1].kind \in Normal
         /\ runs[i].kind \in Normal
         /\ SameArguments(runs[i - 1], runs[i]))
        => /\ runs[i].final = runs[i - 1].final
           /\ runs[i].iteration = 0

\* C6, amended: at every iteration boundary the snapshot restores the L, R,
\* beta and r0 the run holds there, and an execute always enters its loop: it
\* starts with iteration 0 and an infinite improvement, whatever the snapshot.
C6_ResumeStartsFromBoundary ==
    /\ (frame.pc = "while" /\ frame.iteration >= 1)
       => /\ ObtainInitialValues.l_cs_value = frame.l_cs_value
          /\ ObtainInitialValues.r_cs_value = frame.r_cs_value
          /\ ObtainInitialValues.beta_value = frame.beta_value
          /\ ObtainInitialComponentR0 = frame.component_r0
    /\ (frame.pc = "while" /\ frame.iteration = 0)
       => FloatGe(frame.improvement, frame.exit_criterion_epsilon)
    /\ \A i \in 1..Len(runs) : runs[i].kind \in Normal => runs[i].iteration >= 1

\* C6 witness: a second execute, started from the snapshot of a finished run
\* with the same arguments, has gone through a further iteration and holds
\* another R than that snapshot restored.
C6_Witness ==
    /\ frame.pc = "while"
    /\ frame.iteration = 1
    /\ Len(runs) = 1
    /\ runs[1].kind \in Normal
    /\ runs[1].is_degradation_calculated = frame.is_degradation_calculated
    /\ frame.r_cs_value # runs[1].final.r_cs_value
    /\ ObtainInitialValues.r_cs_value = frame.r_cs_value

\* C7: with an all-zero weight vector no left or right minimization step is run.
C7_NoStepOnZeroWeights ==
    ~(frame.pc \in {"left", "right"} /\ AllZero(frame.weights))

\* C8: from construction onwards the weight of every reserved test day is 0 in
\* the weight vector of the object, so also in the objective evaluation that
\* precedes the first iteration.
C8_TestDayWeightsAreZero ==
    \A j \in cs.test_days : cs.weights[j] = 0

\* C9: after any execute call the reconstruction L.R of the accessors is
\* element-wise non-negative.
C9_ClearSkySignalsNonNegative ==
    Returned => NonNegative(Dot(result.l_cs_value, result.r_cs_value))

\* C9, amended: the (L, R) held at the end of every iteration has L.R >= 0, and
\* so has the reconstruction after every execute call that ended without a
\* solver failure.
C9_AcceptedIterateNonNegative ==
    /\ (frame.pc = "while" /\ frame.iteration >= 1)
       => NonNegative(Dot(frame.l_cs_value, frame.r_cs_value))
    /\ (Returned /\ LastRun.kind \in Normal)
       => NonNegative(Dot(result.l_cs_value, result.r_cs_value))

\* C9 witness: a run that started from a seed with negative entries in L0.R0 has
\* ended without failure.
C9_Witness ==
    /\ Returned
    /\ LastRun.kind \in Normal
    /\ ~NonNegative(Dot(matrix_l0, matrix_r0))
    /\ Len(runs) = 1
    /\ NonNegative(Dot(result.l_cs_value, result.r_cs_value))

\* C10: after a minimize_objective that ran with calc_deg disabled and returned,
\* beta is 0, whatever ran on the object before.
C10_DisabledDegradationGivesZeroBeta ==
    (cs_frame.pc = "returned" /\ ~cs_frame.calc_deg) => cs.beta = 0

\* the sum over rows 1..k-1 (0-based) and days t of (R[c, t] - R[c, t + 365])^2
LagSquares(r) ==
    SumTo([c \in 1..(Len(r) - 1) |->
              SumTo([t \in 1..(NDays(r) - Year) |->
                        (r[c + 1][t] - r[c + 1][t + Year]) * (r[c + 1][t] - r[c + 1][t + Year])],
                    1, NDays(r) - Year)],
          1, Len(r) - 1)

\* C11: whenever the objective has been evaluated on an R with fewer than
\* 365 + 2 day columns its component f4 is exactly 0, and on an R with at least
\* 365 + 2 day columns f4 is mu_r times the Frobenius norm of
\* R[1:, t] - R[1:, t + 365], rows 1..k-1 only.
C11_PeriodicityComponent ==
    frame.pc = "while" =>
        frame.objective_values[4] =
            IF NDays(frame.r_cs_value) < Year + 2 THEN 0
            ELSE DefaultMuR * Norm100(LagSquares(frame.r_cs_value))

\* C11 witness: the objective was evaluated after an iteration on an R of
\* 365 + 1 days whose row 1 differs across the lag, and f4 is 0.
C11_Witness ==
    /\ frame.pc = "while"
    /\ frame.iteration >= 1
    /\ NDays(frame.r_cs_value) = Year + 1
    /\ frame.r_cs_value[2][1] # frame.r_cs_value[2][1 + Year]
    /\ frame.objective_values[4] = 0

\* C12: in every iteration after the first of a minimize_objective call, the R
\* and beta min_R returns satisfy the constraints built on row 0 of the R the
\* previous iteration's min_R produced.
C12_ReferenceIsPreviousRow0 ==
    [][(/\ cs_frame.pc = "min_R"
        /\ cs_frame'.pc = "while"
        /\ cs_frame.it >= 1)
       => /\ cs_frame'.r0_used = cs.R_cs[1]
          /\ RightConstraints(cs.D, cs.L_cs, cs'.R_cs, cs'.beta, cs.R_cs[1],
                              cs_frame.calc_deg, cs_frame.max_deg, cs_frame.min_deg)]_vars

\* C12 witness: the second iteration of a call has solved its right problem with
\* the degradation constraint in it, on a reference that is none of the r0 the
\* construction may have computed.
C12_Witness ==
    /\ cs_frame.pc = "while"
    /\ cs_frame.it = 2
    /\ BetaIsSolved(cs.D, cs_frame.calc_deg)
    /\ \A i \in 1..Len(EnvelopePool(NDays(cs.D))) :
           cs_frame.r0_used # EnvelopePool(NDays(cs.D))[i]

\* C13: the residual-increase flag is set during an iteration if and only if f1
\* after that iteration is greater than f1 after the iteration before it (the
\* initial f1 for the first iteration).
C13_FlagIffF1Increased ==
    (frame.pc = "while" /\ frame.iteration >= 1)
    => (frame.f1_flagged <=> frame.objective_values[1] > frame.f1_before)

\* C14: the matrix the SVD seed is computed from is the matrix the fit stores and
\* minimizes against, also when the time-shift correction changed the data.
C14_SeedFromCorrectedData ==
    svd_argument = power_signals_d

\* C15: after every execute call, however it ended, the L, R and beta of the
\* accessors are the L, R and beta of the snapshot state_data.
C15_AccessorsEqualSnapshot ==
    Returned =>
        /\ result.l_cs_value = state_data.l_value
        /\ result.r_cs_value = state_data.r_value
        /\ result.beta_value = state_data.beta_value

====
